---- MODULE Spec2Model ----
(***************************************************************************)
(* Model of the employee-registry command loop                             *)
(* (projects/task1.rs, alphabetical_employees_interface), of main's        *)
(* sequence of calls around it (main.rs), and of the small stateful types  *)
(* of the demonstrations: Counter, SimpleStorage and PersonBuilder         *)
(* (traits.rs), Stack (generics.rs), StrSplit and Parser (lifetime.rs).    *)
(* Each has its own specification over its own variables; the variables    *)
(* of the others stay as they are.                                         *)
(*                                                                         *)
(* Text is modelled as sequences of ASCII codes, so that trim,             *)
(* to_lowercase, eq_ignore_ascii_case, starts_with, split_whitespace and   *)
(* the byte-wise ordering used by sort() are computed, not assumed.        *)
(***************************************************************************)
EXTENDS Integers, Sequences, FiniteSets, TLC

VARIABLES company, pc, prompts, history, out, eof,
          main_pc,
          counter, stack, storage, builder, splitter, parser, trace

\* The registry loop, and the objects of the demonstrations with the trace
\* of the calls made on them.
registryVars == <<company, pc, prompts, history, out, eof>>
demoVars == <<counter, stack, storage, builder, splitter, parser, trace>>

vars == <<company, pc, prompts, history, out, eof,
          main_pc,
          counter, stack, storage, builder, splitter, parser, trace>>

\* Number of loop iterations explored (the loop itself is unbounded).
MaxLines == 3

-----------------------------------------------------------------------------
(* Characters and std string helpers                                       *)

\* char::is_whitespace restricted to ASCII: \t \n \x0B \x0C \r and space.
IsWhitespace(c) == c \in {9, 10, 11, 12, 13, 32}

\* u8::to_ascii_lowercase / char::to_lowercase on ASCII input.
ToLowerChar(c) == IF c >= 65 /\ c <= 90 THEN c + 32 ELSE c

\* str::to_lowercase on ASCII input.
ToLowercase(s) == [i \in 1..Len(s) |-> ToLowerChar(s[i])]

\* str::eq_ignore_ascii_case.
EqIgnoreAsciiCase(a, b) ==
    /\ Len(a) = Len(b)
    /\ \A i \in 1..Len(a) : ToLowerChar(a[i]) = ToLowerChar(b[i])

\* str::starts_with.
StartsWith(s, p) == Len(s) >= Len(p) /\ SubSeq(s, 1, Len(p)) = p

SetMin(S) == CHOOSE x \in S : \A y \in S : x <= y
SetMax(S) == CHOOSE x \in S : \A y \in S : x >= y

\* str::trim: drops leading and trailing whitespace.
Trim(s) ==
    LET keep == {i \in 1..Len(s) : ~IsWhitespace(s[i])}
    IN  IF keep = {} THEN <<>> ELSE SubSeq(s, SetMin(keep), SetMax(keep))

\* str::split_whitespace().collect(): the maximal whitespace-free runs.
RECURSIVE SplitFrom(_, _, _, _)
SplitFrom(s, i, cur, acc) ==
    IF i > Len(s)
    THEN IF cur = <<>> THEN acc ELSE Append(acc, cur)
    ELSE IF IsWhitespace(s[i])
         THEN SplitFrom(s, i + 1, <<>>, IF cur = <<>> THEN acc ELSE Append(acc, cur))
         ELSE SplitFrom(s, i + 1, Append(cur, s[i]), acc)

SplitWhitespace(s) == SplitFrom(s, 1, <<>>, <<>>)

\* Ord for String: byte-wise lexicographic comparison, a <= b.
StrLe(a, b) ==
    LET n    == IF Len(a) < Len(b) THEN Len(a) ELSE Len(b)
        diff == {i \in 1..n : a[i] # b[i]}
    IN  IF diff = {} THEN Len(a) <= Len(b)
        ELSE a[SetMin(diff)] < b[SetMin(diff)]

\* Vec<String>::sort(): stable ascending sort (insertion of each element
\* after the last element not greater than it).
RECURSIVE InsertSorted(_, _)
InsertSorted(sorted, x) ==
    IF sorted = <<>> THEN <<x>>
    ELSE IF StrLe(sorted[Len(sorted)], x)
         THEN Append(sorted, x)
         ELSE Append(InsertSorted(SubSeq(sorted, 1, Len(sorted) - 1), x),
                     sorted[Len(sorted)])

RECURSIVE SortFrom(_, _, _)
SortFrom(v, i, acc) ==
    IF i > Len(v) THEN acc ELSE SortFrom(v, i + 1, InsertSorted(acc, v[i]))

\* (Sort_m: the list left in insertion order.)
Sort_m(v) == v
Sort(v) == SortFrom(v, 1, <<>>)

-----------------------------------------------------------------------------
(* String literals of the source                                           *)

SP  == <<32>>
TAB == <<9>>
NL  == <<10>>

Lit_exit     == <<101, 120, 105, 116>>                       \* "exit"
Lit_add_sp   == <<97, 100, 100, 32>>                         \* "add "
Lit_to       == <<116, 111>>                                 \* "to"
Lit_show_all == <<115, 104, 111, 119, 32, 97, 108, 108>>     \* "show all"
Lit_show_sp  == <<115, 104, 111, 119, 32>>                   \* "show "

-----------------------------------------------------------------------------
(* Output lines (println! calls of the dispatch chain)                     *)

PrintAdded(name, dept) == [kind |-> "added", a |-> name, b |-> dept]
PrintInvalidFormat     == [kind |-> "invalid_format", a |-> <<>>, b |-> <<>>]
PrintDepartment(dept)  == [kind |-> "department", a |-> dept, b |-> <<>>]
PrintEmployee(name)    == [kind |-> "employee", a |-> name, b |-> <<>>]
PrintNotFound          == [kind |-> "not_found", a |-> <<>>, b |-> <<>>]
PrintUnknown           == [kind |-> "unknown", a |-> <<>>, b |-> <<>>]

\* A department header followed by its employees in sorted order.
\* (Section_unsorted: the employees printed in stored order.)
Section_unsorted(dept, employees) ==
    <<PrintDepartment(dept)>> \o [i \in 1..Len(employees) |-> PrintEmployee(employees[i])]
Section(dept, employees) ==
    LET sorted == Sort(employees)
    IN  <<PrintDepartment(dept)>> \o [i \in 1..Len(sorted) |-> PrintEmployee(sorted[i])]

-----------------------------------------------------------------------------
(* Input: the tokens and raw lines typed at the prompt                     *)

t_exit  == <<101, 120, 105, 116>>          \* exit
t_EXIT  == <<69, 88, 73, 84>>              \* EXIT
t_exits == <<101, 120, 105, 116, 115>>     \* exits
t_add   == <<97, 100, 100>>                \* add
t_ADD   == <<65, 68, 68>>                  \* ADD
t_to    == <<116, 111>>                    \* to
t_TO    == <<84, 79>>                      \* TO
t_in    == <<105, 110>>                    \* in
t_show  == <<115, 104, 111, 119>>          \* show
t_SHOW  == <<83, 72, 79, 87>>              \* SHOW
t_all   == <<97, 108, 108>>                \* all
t_now   == <<110, 111, 119>>               \* now
n_Al    == <<65, 108>>                     \* Al
n_Bo    == <<66, 111>>                     \* Bo
n_al    == <<97, 108>>                     \* al
d_HR    == <<72, 82>>                      \* HR
d_hr    == <<104, 114>>                    \* hr
d_IT    == <<73, 84>>                      \* IT
d_Allen == <<65, 108, 108, 101, 110>>      \* Allen

\* Tokens joined by the separator sep.
RECURSIVE Join(_, _)
Join(toks, sep) ==
    IF toks = <<>> THEN <<>>
    ELSE IF Len(toks) = 1 THEN toks[1]
    ELSE toks[1] \o sep \o Join(Tail(toks), sep)

\* A typed line as read_line stores it: the text and the newline.
Typed(toks) == Join(toks, SP) \o NL

ExitLines ==
    { Typed(<<t_EXIT>>), SP \o t_exit \o SP \o NL }

AddLines ==
    { Typed(<<t_add, n_Bo, t_to, d_HR>>),
      Typed(<<t_ADD, n_Al, t_TO, d_HR>>),
      Typed(<<t_add, n_al, t_to, d_hr>>),
      Typed(<<t_add, n_Bo, t_to, d_Allen>>),
      Typed(<<t_add, n_Al, t_to, t_all>>),
      Typed(<<t_add, n_Al, t_to, d_IT, t_now>>),
      Typed(<<t_add, n_Bo, d_HR>>),
      Typed(<<t_add, n_Bo, t_in, d_HR>>) }

ShowAllLines ==
    { Typed(<<t_show, t_all>>), Typed(<<t_show, t_all, t_now>>) }

ShowLines ==
    { Typed(<<t_show, d_HR>>), Typed(<<t_SHOW, d_hr>>),
      Typed(<<t_show, d_Allen>>),
      Typed(<<t_show, d_HR, t_now>>),
      t_show \o SP \o SP \o t_all \o NL }

OtherLines ==
    { NL, Typed(<<t_exits>>), Typed(<<t_exit, t_now>>),
      Typed(<<t_add>>), Typed(<<t_show>>),
      t_add \o TAB \o Join(<<n_Bo, t_to, d_HR>>, SP) \o NL }

Lines == ExitLines \cup AddLines \cup ShowAllLines \cup ShowLines \cup OtherLines

-----------------------------------------------------------------------------
(* The dispatch chain of the loop body                                     *)

\* (IsExit_m: the exit test as a prefix test, as the other arms do it.)
IsExit_m(input)  == StartsWith(ToLowercase(input), Lit_exit)
IsExit(input)    == EqIgnoreAsciiCase(input, Lit_exit)
IsAdd(input)     == StartsWith(ToLowercase(input), Lit_add_sp)
IsShowAll(input) == StartsWith(ToLowercase(input), Lit_show_all)
IsShow(input)    == StartsWith(ToLowercase(input), Lit_show_sp)

\* The arm of the if / else-if chain that input takes.
Branch(input) ==
    IF IsExit(input) THEN "exit"
    ELSE IF IsAdd(input) THEN "add"
    ELSE IF IsShowAll(input) THEN "show_all"
    ELSE IF IsShow(input) THEN "show"
    ELSE "unknown"

\* parts.len() >= 4 && parts[2].eq_ignore_ascii_case("to")
\* (AddAccepted_m: the `to` test as an exact comparison.)
AddAccepted_m(parts) == Len(parts) >= 4 /\ parts[3] = Lit_to
AddAccepted(parts) == Len(parts) >= 4 /\ EqIgnoreAsciiCase(parts[3], Lit_to)

\* company.entry(dept).or_default().push(name)
\* (Insert_m: the key lower-cased before the insertion.)
\* (Insert_noPush: or_default() without the push for a new department.)
\* (Insert_dedup: no push when the name is already in the list.)
\* (Insert_overwrite: insert(dept, vec![name]) in place of entry().push().)
Insert_noPush(c, dept, name) ==
    IF dept \in DOMAIN c
    THEN [c EXCEPT ![dept] = Append(@, name)]
    ELSE [d \in DOMAIN c \cup {dept} |-> IF d = dept THEN <<>> ELSE c[d]]
Insert_dedup(c, dept, name) ==
    IF dept \in DOMAIN c
    THEN [c EXCEPT ![dept] =
              IF \E i \in 1..Len(@) : @[i] = name THEN @ ELSE Append(@, name)]
    ELSE [d \in DOMAIN c \cup {dept} |-> IF d = dept THEN <<name>> ELSE c[d]]
Insert_overwrite(c, dept, name) ==
    [d \in DOMAIN c \cup {dept} |-> IF d = dept THEN <<name>> ELSE c[d]]
Insert_m(c, dept, name) ==
    LET key == ToLowercase(dept)
    IN  IF key \in DOMAIN c
        THEN [c EXCEPT ![key] = Append(@, name)]
        ELSE [d \in DOMAIN c \cup {key} |-> IF d = key THEN <<name>> ELSE c[d]]
Insert(c, dept, name) ==
    IF dept \in DOMAIN c
    THEN [c EXCEPT ![dept] = Append(@, name)]
    ELSE [d \in DOMAIN c \cup {dept} |-> IF d = dept THEN <<name>> ELSE c[d]]

\* The orders in which a HashMap with key set S may be iterated.
Orders(S) ==
    {o \in [1..Cardinality(S) -> S] : \A i, j \in 1..Cardinality(S) : o[i] = o[j] => i = j}

RECURSIVE Sections(_, _)
Sections(c, order) ==
    IF order = <<>> THEN <<>>
    ELSE Section(order[1], c[order[1]]) \o Sections(c, Tail(order))

Result(c, o, p) == [company |-> c, out |-> o, pc |-> p]

\* exit arm: break.  (ExitArm_m: the arm without the break.)
ExitArm_m(c) == {Result(c, <<>>, "prompt")}
ExitArm(c) == {Result(c, <<>>, "terminated")}

\* (AddArm_early: the insertion done before the format is validated.)
\* (AddArm_swapped: parts[1] and parts[3] exchanged in the insertion.)
\* (AddArm_panic: parts[3] indexed before the length is tested.)
AddArm_early(c, input) ==
    LET parts == SplitWhitespace(input)
    IN  IF AddAccepted(parts)
        THEN {Result(Insert(c, parts[4], parts[2]),
                     <<PrintAdded(parts[2], parts[4])>>, "prompt")}
        ELSE IF Len(parts) >= 3
             THEN {Result(Insert(c, parts[3], parts[2]), <<PrintInvalidFormat>>, "prompt")}
             ELSE {Result(c, <<PrintInvalidFormat>>, "prompt")}
AddArm_swapped(c, input) ==
    LET parts == SplitWhitespace(input)
    IN  IF AddAccepted(parts)
        THEN {Result(Insert(c, parts[2], parts[4]),
                     <<PrintAdded(parts[2], parts[4])>>, "prompt")}
        ELSE {Result(c, <<PrintInvalidFormat>>, "prompt")}
AddArm_panic(c, input) ==
    LET parts == SplitWhitespace(input)
    IN  IF Len(parts) < 4
        THEN {Result(c, <<>>, "panicked")}
        ELSE IF AddAccepted(parts)
             THEN {Result(Insert(c, parts[4], parts[2]),
                          <<PrintAdded(parts[2], parts[4])>>, "prompt")}
             ELSE {Result(c, <<PrintInvalidFormat>>, "prompt")}
AddArm(c, input) ==
    LET parts == SplitWhitespace(input)
    IN  IF AddAccepted(parts)
        THEN {Result(Insert(c, parts[4], parts[2]),
                     <<PrintAdded(parts[2], parts[4])>>, "prompt")}
        ELSE {Result(c, <<PrintInvalidFormat>>, "prompt")}

ShowAllArm(c) ==
    {Result(c, Sections(c, o), "prompt") : o \in Orders(DOMAIN c)}

\* (ShowArm_inPlace: the stored list sorted, not a clone of it.)
ShowArm_inPlace(c, input) ==
    LET parts == SplitWhitespace(input)
    IN  IF Len(parts) = 2
        THEN IF parts[2] \in DOMAIN c
             THEN {Result([c EXCEPT ![parts[2]] = Sort(@)],
                          Section(parts[2], c[parts[2]]), "prompt")}
             ELSE {Result(c, <<PrintNotFound>>, "prompt")}
        ELSE {Result(c, <<>>, "prompt")}
ShowArm(c, input) ==
    LET parts == SplitWhitespace(input)
    IN  IF Len(parts) = 2
        THEN IF parts[2] \in DOMAIN c
             THEN {Result(c, Section(parts[2], c[parts[2]]), "prompt")}
             ELSE {Result(c, <<PrintNotFound>>, "prompt")}
        ELSE {Result(c, <<>>, "prompt")}

\* The possible results of one pass through the chain on the trimmed input.
Outcomes(c, input) ==
    LET arm == Branch(input)
    IN  CASE arm = "exit"     -> ExitArm(c)
          [] arm = "add"      -> AddArm(c, input)
          [] arm = "show_all" -> ShowAllArm(c)
          [] arm = "show"     -> ShowArm(c, input)
          [] OTHER            -> {Result(c, <<PrintUnknown>>, "prompt")}

\* The typed lines by the arm of the chain that they take.
LinesByArm ==
    [arm \in {"exit", "add", "show_all", "show", "unknown"} |->
        {raw \in Lines : Branch(Trim(raw)) = arm}]

-----------------------------------------------------------------------------
(* The state machine                                                       *)

\* The place of an object that does not exist (not constructed, or moved
\* away and dropped); an object that exists is held as <<object>>.
NoObject == <<>>

\* None of the demonstration objects exists.
NoDemo ==
    /\ counter = NoObject
    /\ stack = NoObject
    /\ storage = NoObject
    /\ builder = NoObject
    /\ splitter = NoObject
    /\ parser = NoObject
    /\ trace = <<>>

\* The registry loop has not been entered.
NoRegistry ==
    /\ company = <<>>
    /\ pc = "unstarted"
    /\ prompts = 0
    /\ history = <<>>
    /\ out = <<>>
    /\ eof = FALSE

\* main is in its call of alphabetical_employees_interface; the registry has
\* just been created empty.
Init ==
    /\ company = <<>>
    /\ pc = "prompt"
    /\ prompts = 0
    /\ history = <<>>
    /\ out = <<>>
    /\ eof = FALSE
    /\ main_pc = "alphabetical_employees_interface"
    /\ NoDemo

\* Top of the loop: the menu and the "> " prompt are printed, then the
\* loop blocks in read_line.
\* (Prompt_silent: the loop top without the menu and prompt.)
Prompt_silent ==
    /\ pc = "prompt"
    /\ Len(history) < MaxLines
    /\ pc' = "read"
    /\ UNCHANGED <<company, prompts, history, out, eof>>
    /\ UNCHANGED <<main_pc, demoVars>>
Prompt ==
    /\ pc = "prompt"
    /\ Len(history) < MaxLines
    /\ pc' = "read"
    /\ prompts' = prompts + 1
    /\ UNCHANGED <<company, history, out, eof>>
    /\ UNCHANGED <<main_pc, demoVars>>

\* read_line stored buf (Ok(n)); the rest of the body runs on buf.trim().
Body(buf) ==
    \E r \in Outcomes(company, Trim(buf)) :
        /\ company' = r.company
        /\ out' = r.out
        /\ pc' = r.pc
        /\ history' = Append(history, buf)
        /\ UNCHANGED prompts
        /\ UNCHANGED <<main_pc, demoVars>>

\* A line is read and takes the exit arm: break.
CmdExit ==
    /\ pc = "read"
    /\ ~eof
    /\ \E raw \in LinesByArm["exit"] : Body(raw)
    /\ UNCHANGED eof

\* A line is read and takes the add arm.
CmdAdd ==
    /\ pc = "read"
    /\ ~eof
    /\ \E raw \in LinesByArm["add"] : Body(raw)
    /\ UNCHANGED eof

\* A line is read and takes the show-all arm.
CmdShowAll ==
    /\ pc = "read"
    /\ ~eof
    /\ \E raw \in LinesByArm["show_all"] : Body(raw)
    /\ UNCHANGED eof

\* A line is read and takes the show <dept> arm.
CmdShow ==
    /\ pc = "read"
    /\ ~eof
    /\ \E raw \in LinesByArm["show"] : Body(raw)
    /\ UNCHANGED eof

\* A line is read and takes the final else arm.
CmdUnknown ==
    /\ pc = "read"
    /\ ~eof
    /\ \E raw \in LinesByArm["unknown"] : Body(raw)
    /\ UNCHANGED eof

\* End of stream: read_line returns Ok(0) and leaves the buffer empty, so
\* expect() does not fail and the body runs on the empty string.
ReadEof ==
    /\ pc = "read"
    /\ eof' = TRUE
    /\ Body(<<>>)

\* read_line returns Err: expect("Failed to read input") panics.
ReadErr ==
    /\ pc = "read"
    /\ pc' = "panicked"
    /\ UNCHANGED <<company, prompts, history, out, eof>>
    /\ UNCHANGED <<main_pc, demoVars>>

Next ==
    \/ Prompt
    \/ CmdExit
    \/ CmdAdd
    \/ CmdShowAll
    \/ CmdShow
    \/ CmdUnknown
    \/ ReadEof
    \/ ReadErr

Spec == Init /\ [][Next]_vars

TypeOK ==
    /\ pc \in {"prompt", "read", "terminated", "panicked"}
    /\ prompts \in 0..MaxLines
    /\ Len(history) <= MaxLines
    /\ eof \in BOOLEAN

-----------------------------------------------------------------------------
(* Vocabulary of the properties: the command grammar in terms of tokens    *)

\* Letter-case folding of one character and of a text.
Fold(c) == IF c \in 65..90 THEN c + 32 ELSE c
Folded(s) == [i \in 1..Len(s) |-> Fold(s[i])]

\* The whitespace-separated tokens of a raw line.
Tokens(raw) == SplitWhitespace(raw)

\* tok is the keyword kw in some letter case.
IsKeyword(tok, kw) == Folded(tok) = kw

\* The line most recently handed to the loop body, and whether the last
\* step read one.
LastLine(h) == h[Len(h)]
ReadStep == history' # history

\* The whole line is the single token `exit` in some letter case.
ExitText(raw) ==
    Len(Tokens(raw)) = 1 /\ IsKeyword(Tokens(raw)[1], t_exit)

\* A line whose verb is `add`.
AddLine(raw) ==
    Len(Tokens(raw)) >= 1 /\ IsKeyword(Tokens(raw)[1], t_add)

\* `add <name> to <dept>`: exactly four tokens, the third being `to`.
ValidAdd(raw) ==
    /\ Len(Tokens(raw)) = 4
    /\ IsKeyword(Tokens(raw)[1], t_add)
    /\ IsKeyword(Tokens(raw)[3], t_to)

\* `show all`: exactly the two tokens show and all.
ShowAllLine(raw) ==
    /\ Len(Tokens(raw)) = 2
    /\ IsKeyword(Tokens(raw)[1], t_show)
    /\ IsKeyword(Tokens(raw)[2], t_all)

\* `show <dept>`: exactly two tokens, the second not being `all`.
ShowDeptLine(raw) ==
    /\ Len(Tokens(raw)) = 2
    /\ IsKeyword(Tokens(raw)[1], t_show)
    /\ ~IsKeyword(Tokens(raw)[2], t_all)

\* The employee names printed, in print order.
EmployeesPrinted(o) ==
    LET es == SelectSeq(o, LAMBDA r : r.kind = "employee")
    IN  [i \in 1..Len(es) |-> es[i].a]

Count(seq, x) == Cardinality({i \in 1..Len(seq) : seq[i] = x})
Range(seq) == {seq[i] : i \in 1..Len(seq)}

\* seq is in ascending lexicographic order.
Ascending(seq) == \A i \in 1..(Len(seq) - 1) : StrLe(seq[i], seq[i + 1])

\* a and b hold the same names the same number of times.
SameBag(a, b) == \A x \in Range(a) \cup Range(b) : Count(a, x) = Count(b, x)

\* The names that the valid add lines of h put into department D, in
\* the order of the lines.
RECURSIVE AddedTo(_, _)
AddedTo(h, D) ==
    IF h = <<>> THEN <<>>
    ELSE LET l == h[Len(h)]
             before == AddedTo(SubSeq(h, 1, Len(h) - 1), D)
         IN  IF ValidAdd(l) /\ Tokens(l)[4] = D
             THEN Append(before, Tokens(l)[2])
             ELSE before

-----------------------------------------------------------------------------
(* Properties                                                              *)

\* C1: after a sequence of valid `add <name> to <dept>` lines, `show D`
\* prints exactly the names added to D, each as often as it was added, in
\* ascending lexicographic order.
C1_ShowListsAdded ==
    ( /\ Len(history) >= 1
      /\ ShowDeptLine(LastLine(history))
      /\ \A i \in 1..(Len(history) - 1) : ValidAdd(history[i]) )
    => LET D == Tokens(LastLine(history))[2]
           printed == EmployeesPrinted(out)
       IN  /\ Ascending(printed)
           /\ SameBag(printed, AddedTo(SubSeq(history, 1, Len(history) - 1), D))

\* C2: an add line is accepted only with exactly 4 tokens and `to` as the
\* third; every other add line prints the format error and inserts nothing.
C2_AddNeedsExactlyFourTokens ==
    [][ (ReadStep /\ AddLine(LastLine(history')))
        => LET l == LastLine(history')
           IN  IF ValidAdd(l)
               THEN out' = <<PrintAdded(Tokens(l)[2], Tokens(l)[4])>>
               ELSE out' = <<PrintInvalidFormat>> /\ company' = company ]_vars

\* C3: a line that is not exit, not an add line, not `show all` and not a
\* two-token `show <dept>` prints the unknown-command message, leaves the
\* registry unchanged and leaves the loop running.
C3_OtherLinesAreUnknown ==
    [][ ( /\ ReadStep
          /\ ~ExitText(LastLine(history'))
          /\ ~AddLine(LastLine(history'))
          /\ ~ShowAllLine(LastLine(history'))
          /\ ~ShowDeptLine(LastLine(history')) )
        => /\ out' = <<PrintUnknown>>
           /\ company' = company
           /\ pc' = "prompt" ]_vars

\* C4: a failed read, end-of-stream included, is fatal: once the input
\* stream has ended the loop has stopped at that read.
C4_ReadFailureIsFatal == eof => pc = "panicked"

\* C5: the loop starts running and terminates only on a line that, trimmed,
\* is `exit` in some letter case; after any other line it is still running.
C5_TerminatesOnlyOnExit ==
    /\ pc = "prompt"
    /\ [][ /\ ReadStep =>
                IF ExitText(LastLine(history'))
                THEN pc' = "terminated"
                ELSE pc' = "prompt"
           /\ (pc' = "terminated" /\ pc # "terminated") => ReadStep ]_vars

C5_Witness ==
    /\ pc = "terminated"
    /\ Len(history) = 3
    /\ history[1] = Typed(<<t_exit, t_now>>)
    /\ history[2] = Typed(<<t_exits>>)

\* Some line read so far was an exit line.
ExitSeen == \E i \in 1..Len(history) : ExitText(history[i])

\* C6: once an exit line has been read there is no further prompt, no
\* further line is consumed, nothing more is printed and the registry is
\* never modified again.
C6_TerminatedIsAbsorbing ==
    [][ ExitSeen => /\ prompts' = prompts
                    /\ history' = history
                    /\ out' = out
                    /\ company' = company ]_vars

C6_Witness == ExitSeen /\ pc = "terminated" /\ company # <<>>

\* C7: a two-token `show <dept>` for a department that was never added
\* prints not-found, keeps the loop running and leaves the registry as it
\* was.
C7_ShowUnknownDeptIsNotFound ==
    [][ ( /\ ReadStep
          /\ ShowDeptLine(LastLine(history'))
          /\ Tokens(LastLine(history'))[2] \notin DOMAIN company )
        => /\ out' = <<PrintNotFound>>
           /\ pc' = "prompt"
           /\ company' = company ]_vars

\* The literal command `show all` (one space) in some letter case.
LiteralShowAll(raw) == Folded(Trim(raw)) = t_show \o SP \o t_all

\* Positions of the department headers in an output, and the names printed
\* under the header at position i.
Heads(o) == {i \in 1..Len(o) : o[i].kind = "department"}
NamesAfter(o, i) ==
    LET later == {j \in Heads(o) : j > i}
        last  == IF later = {} THEN Len(o) ELSE SetMin(later) - 1
    IN  [k \in 1..(last - i) |-> o[i + k].a]

\* o is one section per department of c, each with c's names for that
\* department in ascending order.
ListsRegistry(o, c) ==
    /\ \A i \in 1..Len(o) : o[i].kind \in {"department", "employee"}
    /\ o # <<>> => o[1].kind = "department"
    /\ \A d \in DOMAIN c : Cardinality({i \in Heads(o) : o[i].a = d}) = 1
    /\ \A i \in Heads(o) :
          /\ o[i].a \in DOMAIN c
          /\ Ascending(NamesAfter(o, i))
          /\ SameBag(NamesAfter(o, i), c[o[i].a])

Unfold(c) == IF c \in 97..122 THEN c - 32 ELSE c

\* The number of the token that the non-blank position i of raw lies in.
TokenAt(raw, i) ==
    Cardinality({j \in 1..i : /\ ~IsWhitespace(raw[j])
                              /\ (j = 1 \/ IsWhitespace(raw[j - 1]))})

\* The tokens of raw that are keywords: the verb, the `to` of an add line
\* and the `all` that follows `show` and one space.  (After a wider gap,
\* as in `show  all`, the token is taken as a department name; see C18.)
KeywordPositions(raw) ==
    LET ts == Tokens(raw)
    IN  IF ts = <<>> THEN {}
        ELSE IF IsKeyword(ts[1], t_exit) THEN {1}
        ELSE IF IsKeyword(ts[1], t_add)
             THEN {1} \cup (IF Len(ts) >= 3 /\ IsKeyword(ts[3], t_to) THEN {3} ELSE {})
        ELSE IF IsKeyword(ts[1], t_show)
             THEN {1} \cup (IF /\ Len(ts) >= 2
                               /\ IsKeyword(ts[2], t_all)
                               /\ StartsWith(Folded(Trim(raw)), t_show \o SP \o t_all)
                            THEN {2} ELSE {})
        ELSE {}

Recase(style, c, i) ==
    CASE style = "lower" -> Fold(c)
      [] style = "upper" -> Unfold(c)
      [] OTHER           -> IF i % 2 = 1 THEN Unfold(c) ELSE Fold(c)

\* The lines that differ from raw only in the letter case of its keywords.
KeywordCaseVariants(raw) ==
    LET K == KeywordPositions(raw)
    IN  { [i \in 1..Len(raw) |->
              IF ~IsWhitespace(raw[i]) /\ TokenAt(raw, i) \in K
              THEN Recase(f[TokenAt(raw, i)], raw[i], i)
              ELSE raw[i]]
          : f \in [K -> {"lower", "upper", "mixed"}] }

\* The trimmed keyword-case variants of every line the loop can be handed.
CaseVariantsOf ==
    [raw \in Lines \cup {<<>>} |-> {Trim(v) : v \in KeywordCaseVariants(raw)}]

TrimmedLine == [raw \in Lines \cup {<<>>} |-> Trim(raw)]

AllPrefixed(tok) == StartsWith(Folded(tok), t_all)

\* C10: department and employee names are case-sensitive and stored as
\* entered: an add that changes the registry stores its 2nd token under
\* its 4th token, untouched, and leaves every other department, also one
\* whose name differs only in letter case, alone; a lookup of a department
\* present only in another letter case is not-found.
C10_NamesAreCaseSensitive ==
    [][ ReadStep =>
            LET l  == LastLine(history')
                ts == Tokens(l)
            IN  /\ (AddLine(l) /\ company' # company) =>
                      /\ Len(ts) >= 4
                      /\ DOMAIN company' = DOMAIN company \cup {ts[4]}
                      /\ company'[ts[4]] =
                             (IF ts[4] \in DOMAIN company THEN company[ts[4]] ELSE <<>>)
                                 \o <<ts[2]>>
                      /\ \A k \in DOMAIN company : k # ts[4] => company'[k] = company[k]
                /\ ( /\ ShowDeptLine(l)
                     /\ ~AllPrefixed(ts[2])
                     /\ ts[2] \notin DOMAIN company
                     /\ \E k \in DOMAIN company : Folded(k) = Folded(ts[2]) )
                   => out' = <<PrintNotFound>> ]_vars

C10_Witness ==
    /\ Len(history) = 3
    /\ history[1] = Typed(<<t_ADD, n_Al, t_TO, d_HR>>)
    /\ history[2] = Typed(<<t_SHOW, d_hr>>)
    /\ history[3] = Typed(<<t_add, n_al, t_to, d_hr>>)
    /\ DOMAIN company = {d_HR, d_hr}
    /\ company[d_HR] = <<n_Al>>
    /\ company[d_hr] = <<n_al>>

\* C11: every department in the registry has at least one employee.
C11_NoEmptyDepartment ==
    \A d \in DOMAIN company : Len(company[d]) >= 1

C11_Witness ==
    /\ DOMAIN company = {d_HR, t_all}
    /\ company[d_HR] = <<n_Bo>>
    /\ company[t_all] = <<n_Al>>

\* The last step printed the confirmation of an add.
AddConfirmed == out' # <<>> /\ out'[1].kind = "added"

C13_RejectedAddChangesNothing ==
    [][ /\ ( /\ ReadStep
             /\ AddLine(LastLine(history'))
             /\ out' = <<PrintInvalidFormat>> )
           => (company' = company /\ pc' = "prompt")
        /\ ( /\ ReadStep
             /\ LiteralShowAll(LastLine(history'))
             /\ Len(history) = 1
             /\ AddLine(history[1])
             /\ out = <<PrintInvalidFormat>> )
           => out' = <<>> ]_vars

C13_Witness ==
    /\ Len(history) = 2
    /\ history[1] = Typed(<<t_add, n_Bo, d_HR>>)
    /\ history[2] = Typed(<<t_show, t_all>>)
    /\ company = <<>>
    /\ out = <<>>
    /\ pc = "prompt"

\* C14: a confirmed add appends exactly one entry, its name, to its
\* department's list (a new list of one entry if the department was absent,
\* one more entry if the name is already there), leaves every other
\* department alone and prints a confirmation naming both.
C14_AddAppendsOne ==
    [][ (ReadStep /\ AddLine(LastLine(history')) /\ AddConfirmed)
        => LET ts == Tokens(LastLine(history'))
           IN  /\ Len(ts) >= 4
               /\ out' = <<PrintAdded(ts[2], ts[4])>>
               /\ DOMAIN company' = DOMAIN company \cup {ts[4]}
               /\ IF ts[4] \in DOMAIN company
                  THEN company'[ts[4]] = Append(company[ts[4]], ts[2])
                  ELSE company'[ts[4]] = <<ts[2]>>
               /\ \A d \in DOMAIN company : d # ts[4] => company'[d] = company[d] ]_vars

C14_Witness ==
    /\ Len(history) = 3
    /\ history[3] = Typed(<<t_add, n_Bo, t_to, d_HR>>)
    /\ DOMAIN company = {d_HR, d_hr}
    /\ company[d_HR] = <<n_Bo, n_Bo>>
    /\ out = <<PrintAdded(n_Bo, d_HR)>>

\* The rearrangements of a list, and the registries that hold the same
\* names per department as c in some other stored order.
PermsOf(seq) ==
    {[i \in 1..Len(seq) |-> seq[p[i]]] : p \in Orders(1..Len(seq))}
Reorderings(c) ==
    {c2 \in [DOMAIN c -> UNION {PermsOf(c[d]) : d \in DOMAIN c}] :
        \A d \in DOMAIN c : c2[d] \in PermsOf(c[d])}

\* What a line may print on registry c.
Outs(c, input) == {r.out : r \in Outcomes(c, input)}

\* A line whose verb is `show`.
ShowVerb(raw) == Len(Tokens(raw)) >= 1 /\ IsKeyword(Tokens(raw)[1], t_show)

\* A valid add typed with a space after the verb.
PlainAdd(raw) == ValidAdd(raw) /\ StartsWith(Folded(Trim(raw)), t_add \o SP)

\* C15: what show prints does not depend on the insertion order: the
\* registry after a sequence of valid adds holds, per department, the
\* names added whatever their order, and a show line prints the same on
\* every registry that differs from the current one only in stored order.
C15_DisplayIgnoresInsertionOrder ==
    /\ []( (\A i \in 1..Len(history) : PlainAdd(history[i]))
           => \A d \in DOMAIN company \cup {Tokens(history[i])[4] : i \in 1..Len(history)} :
                  /\ d \in DOMAIN company
                  /\ SameBag(company[d], AddedTo(history, d)) )
    /\ [][ (ReadStep /\ ShowVerb(LastLine(history')))
           => \A c2 \in Reorderings(company) :
                  /\ Outs(c2, TrimmedLine[LastLine(history')])
                         = Outs(company, TrimmedLine[LastLine(history')])
                  /\ out' \in Outs(c2, TrimmedLine[LastLine(history')]) ]_vars

C15_Witness ==
    /\ Len(history) = 3
    /\ history[1] = Typed(<<t_add, n_Bo, t_to, d_HR>>)
    /\ history[2] = Typed(<<t_ADD, n_Al, t_TO, d_HR>>)
    /\ history[3] = Typed(<<t_show, d_HR>>)
    /\ company[d_HR] = <<n_Bo, n_Al>>
    /\ out = <<PrintDepartment(d_HR), PrintEmployee(n_Al), PrintEmployee(n_Bo)>>

\* C16: the registry starts empty and only grows: no step removes a
\* department, shortens a list or drops a name from it.
C16_RegistryOnlyGrows ==
    /\ company = <<>>
    /\ [][ /\ DOMAIN company \subseteq DOMAIN company'
           /\ \A d \in DOMAIN company :
                 /\ Len(company'[d]) >= Len(company[d])
                 /\ \A x \in Range(company[d]) :
                        Count(company'[d], x) >= Count(company[d], x) ]_vars

C16_Witness ==
    /\ Cardinality(DOMAIN company) = 3
    /\ d_Allen \in DOMAIN company

\* The one section a lookup of department d prints on registry c.
LookupPrints(o, c, d) ==
    IF d \in DOMAIN c
    THEN /\ Len(o) = Len(c[d]) + 1
         /\ o[1] = PrintDepartment(d)
         /\ Ascending(EmployeesPrinted(o))
         /\ SameBag(EmployeesPrinted(o), c[d])
    ELSE o = <<PrintNotFound>>

\* C17: a two-token `show X` with X other than `all` is a lookup of
\* department X (X's sorted section if X exists, not-found otherwise), and
\* a show line that is not exactly the two tokens `show`, `all` prints no
\* listing of the departments.
C17_ShowDeptIsLookup ==
    [][ /\ (ReadStep /\ ShowDeptLine(LastLine(history')))
           => LookupPrints(out', company, Tokens(LastLine(history'))[2])
        /\ ( /\ ReadStep
             /\ ShowVerb(LastLine(history'))
             /\ Len(Tokens(LastLine(history'))) # 2 )
           => Heads(out') = {} ]_vars

\* C18: a line made of the two tokens `show` and `all` lists the whole
\* registry, also when a department named `all` exists; that department is
\* never looked up on its own.
C18_ShowAllNeverLooksUpAll ==
    [][ (ReadStep /\ ShowAllLine(LastLine(history')))
        => /\ ListsRegistry(out', company)
           /\ out' # <<PrintNotFound>> ]_vars

\* C19: the line on which the loop stops is the first exit line read, every
\* line of the input alphabet can be processed whatever the registry, and
\* processing a line that is not exit returns to the prompt, so nothing
\* before an exit aborts the loop or keeps the exit from ending it.
C19_FirstExitTerminates ==
    /\ [](ExitSeen => /\ pc = "terminated"
                      /\ ExitText(LastLine(history))
                      /\ \A i \in 1..(Len(history) - 1) : ~ExitText(history[i]))
    /\ []((pc = "read" /\ ~eof)
           => \A raw \in Lines :
                 /\ Outcomes(company, TrimmedLine[raw]) # {}
                 /\ \A r \in Outcomes(company, TrimmedLine[raw]) :
                        r.pc = IF ExitText(raw) THEN "terminated" ELSE "prompt")
    /\ [][ ReadStep
           => pc' = IF ExitText(LastLine(history')) THEN "terminated" ELSE "prompt" ]_vars

C19_Witness ==
    /\ pc = "terminated"
    /\ Len(history) = 3
    /\ history[1] = Typed(<<t_add, n_Bo, d_HR>>)
    /\ history[2] = NL
    /\ history[3] = Typed(<<t_EXIT>>)
    /\ out = <<>>

AcceptedAdds ==
    {raw \in LinesByArm["add"] : AddAccepted(SplitWhitespace(TrimmedLine[raw]))}
TokensOf == [raw \in Lines \cup {<<>>} |-> Tokens(raw)]

\* A non-empty token: no whitespace in it.
IsToken(t) == t # <<>> /\ \A i \in 1..Len(t) : ~IsWhitespace(t[i])

\* C22: every department key and every stored name is a non-empty token
\* without whitespace, and each stored (department, name) is the 4th and
\* 2nd whitespace-separated token of an add line accepted earlier.
C22_StoredAreTokensOfAcceptedAdds ==
    \A d \in DOMAIN company :
        /\ IsToken(d)
        /\ \A k \in 1..Len(company[d]) :
              /\ IsToken(company[d][k])
              /\ \E i \in 1..Len(history) :
                    /\ history[i] \in AcceptedAdds
                    /\ Len(TokensOf[history[i]]) >= 4
                    /\ TokensOf[history[i]][4] = d
                    /\ TokensOf[history[i]][2] = company[d][k]

C22_Witness ==
    /\ DOMAIN company = {d_IT, t_all, d_hr}
    /\ company[d_IT] = <<n_Al>>
    /\ company[d_hr] = <<n_al>>

-----------------------------------------------------------------------------
(* The demonstration types: Option values and the trace of calls           *)

\* Option<T>: None, and Some(v).
None == <<>>
Some(v) == <<v>>

\* One call on a demonstration object: the method, its arguments as a
\* tuple and what it returned (<<>> if it returns nothing).
Call(op, arg, ret) == [op |-> op, arg |-> arg, ret |-> ret]

\* The result of a method: the object after the call and the value returned.
Returns(self, ret) == [self |-> self, ret |-> ret]

-----------------------------------------------------------------------------
(* traits.rs: Counter and MyIterator                                       *)

\* The largest max explored and the number of calls explored on one object.
MaxCount == 6
MaxCalls == 9

\* Counter::new.
Counter_new(max) == [current |-> 0, max |-> max]

\* MyIterator for Counter: next.
\* (Counter_next_le: the bound tested with <= .)
Counter_next_le(c) ==
    IF c.current <= c.max
    THEN Returns([c EXCEPT !.current = @ + 1], Some(c.current))
    ELSE Returns(c, None)
Counter_next(c) ==
    IF c.current < c.max
    THEN Returns([c EXCEPT !.current = @ + 1], Some(c.current))
    ELSE Returns(c, None)

\* MyIterator::collect_all: the while-let loop, items being the vector
\* collected so far.
RECURSIVE collect_all_loop(_, _)
collect_all_loop(self, items) ==
    LET r == Counter_next(self)
    IN  IF r.ret # None
        THEN collect_all_loop(r.self, Append(items, r.ret[1]))
        ELSE items
collect_all(self) == collect_all_loop(self, <<>>)

CounterInit ==
    /\ \E max \in 0..MaxCount :
          /\ counter = <<Counter_new(max)>>
          /\ trace = <<Call("new", <<max>>, <<>>)>>
    /\ stack = NoObject
    /\ storage = NoObject
    /\ builder = NoObject
    /\ splitter = NoObject
    /\ parser = NoObject
    /\ main_pc = "run_traits_examples"
    /\ NoRegistry

\* counter.next() is called.
CounterNext ==
    /\ counter # NoObject
    /\ Len(trace) <= MaxCalls
    /\ LET r == Counter_next(counter[1])
       IN  /\ counter' = <<r.self>>
           /\ trace' = Append(trace, Call("next", <<>>, r.ret))
    /\ UNCHANGED <<registryVars, main_pc, stack, storage, builder, splitter, parser>>

\* counter.collect_all() is called: it takes the counter by value.
CounterCollectAll ==
    /\ counter # NoObject
    /\ counter' = NoObject
    /\ trace' = Append(trace, Call("collect_all", <<>>, collect_all(counter[1])))
    /\ UNCHANGED <<registryVars, main_pc, stack, storage, builder, splitter, parser>>

CounterStep ==
    \/ CounterNext
    \/ CounterCollectAll

CounterSpec == CounterInit /\ [][CounterStep]_vars

\* The integers from, from + 1, ..., to - 1 in order.
Interval(from, to) ==
    [k \in 1..(IF to > from THEN to - from ELSE 0) |-> from + k - 1]

\* C23: the i-th call of next on Counter::new(max) returns Some(i - 1)
\* while i <= max and None afterwards; current never exceeds max; and
\* collect_all returns what next had still to yield, in order, which on a
\* fresh counter is 0, 1, ..., max - 1.
C23_CounterYieldsZeroToMax ==
    LET max == trace[1].arg[1]
    IN  /\ counter # NoObject => (counter[1].max = max /\ counter[1].current <= max)
        /\ \A i \in 2..Len(trace) :
              /\ trace[i].op = "next"
                 => trace[i].ret = IF i - 1 <= max THEN Some(i - 2) ELSE None
              /\ trace[i].op = "collect_all"
                 => /\ i = Len(trace)
                    /\ trace[i].ret = Interval(IF i - 2 <= max THEN i - 2 ELSE max, max)
                    /\ i = 2 => trace[i].ret = Interval(0, max)

C23_Witness ==
    /\ Len(trace) = 7
    /\ trace[1].arg = <<3>>
    /\ trace[4].ret = Some(2)
    /\ trace[5].ret = None
    /\ trace[6].ret = None
    /\ trace[7] = Call("collect_all", <<>>, <<>>)

-----------------------------------------------------------------------------
(* generics.rs: Stack<T>                                                   *)

\* The number of calls explored on a stack, a storage or a builder, and
\* the values pushed or stored.
MaxOps == 5
Items == {1, 2}

\* Stack::new.
Stack_new == [items |-> <<>>]

\* Stack::push: Vec::push.
Stack_push(self, item) == Returns([self EXCEPT !.items = Append(@, item)], <<>>)

\* Stack::pop: Vec::pop.
\* (Stack_pop_front: the oldest item taken instead of the newest.)
Stack_pop_front(self) ==
    IF self.items = <<>>
    THEN Returns(self, None)
    ELSE Returns([self EXCEPT !.items = Tail(@)], Some(Head(self.items)))
Stack_pop(self) ==
    IF self.items = <<>>
    THEN Returns(self, None)
    ELSE Returns([self EXCEPT !.items = SubSeq(@, 1, Len(@) - 1)],
                 Some(self.items[Len(self.items)]))

\* Stack::peek: Vec::last.
Stack_peek(self) ==
    IF self.items = <<>>
    THEN Returns(self, None)
    ELSE Returns(self, Some(self.items[Len(self.items)]))

\* Stack::is_empty and Stack::size.
Stack_is_empty(self) == Returns(self, self.items = <<>>)
Stack_size(self) == Returns(self, Len(self.items))

StackInit ==
    /\ stack = <<Stack_new>>
    /\ trace = <<Call("new", <<>>, <<>>)>>
    /\ counter = NoObject
    /\ storage = NoObject
    /\ builder = NoObject
    /\ splitter = NoObject
    /\ parser = NoObject
    /\ main_pc = "run_generics_examples"
    /\ NoRegistry

\* The call `op` on the stack gave r.
StackCalled(op, arg, r) ==
    /\ Len(trace) <= MaxOps
    /\ stack' = <<r.self>>
    /\ trace' = Append(trace, Call(op, arg, <<r.ret>>))
    /\ UNCHANGED <<registryVars, main_pc, counter, storage, builder, splitter, parser>>

StackPush == \E item \in Items : StackCalled("push", <<item>>, Stack_push(stack[1], item))
StackPop == StackCalled("pop", <<>>, Stack_pop(stack[1]))
StackPeek == StackCalled("peek", <<>>, Stack_peek(stack[1]))
StackIsEmpty == StackCalled("is_empty", <<>>, Stack_is_empty(stack[1]))
StackSize == StackCalled("size", <<>>, Stack_size(stack[1]))

StackStep ==
    \/ StackPush
    \/ StackPop
    \/ StackPeek
    \/ StackIsEmpty
    \/ StackSize

StackSpec == StackInit /\ [][StackStep]_vars

\* The positions in tr, among the first n, of the pushes not yet popped:
\* a pop takes the latest of them.
RECURSIVE Unpopped(_, _)
Unpopped(tr, n) ==
    IF n = 0 THEN {}
    ELSE LET before == Unpopped(tr, n - 1)
         IN  CASE tr[n].op = "push" -> before \cup {n}
               [] tr[n].op = "pop" /\ before # {} -> before \ {SetMax(before)}
               [] OTHER -> before

\* The value of the latest push not yet popped before call n, if any.
TopBefore(tr, n) ==
    LET pending == Unpopped(tr, n - 1)
    IN  IF pending = {} THEN None ELSE Some(tr[SetMax(pending)].arg[1])

\* Pushes, and pops that returned an item, before call n.
PushesBefore(tr, n) == Cardinality({k \in 1..(n - 1) : tr[k].op = "push"})
PopsBefore(tr, n) ==
    Cardinality({k \in 1..(n - 1) : tr[k].op = "pop" /\ tr[k].ret # <<None>>})

\* C24: the stack is LIFO: pop and peek return the most recently pushed
\* item not yet popped, or None on the empty stack; size is the pushes
\* minus the successful pops and is_empty is size = 0; only push and a
\* successful pop change the stack, by exactly that item.
C24_StackIsLifo ==
    /\ [](\A n \in 2..Len(trace) :
            /\ trace[n].op \in {"pop", "peek"} => trace[n].ret = <<TopBefore(trace, n)>>
            /\ trace[n].op = "size"
               => trace[n].ret = <<PushesBefore(trace, n) - PopsBefore(trace, n)>>
            /\ trace[n].op = "is_empty"
               => trace[n].ret = <<PushesBefore(trace, n) = PopsBefore(trace, n)>>)
    /\ [](Len(stack[1].items) = Cardinality(Unpopped(trace, Len(trace))))
    /\ [][ LET c == trace'[Len(trace')]
           IN  CASE c.op = "push" -> stack'[1].items = Append(stack[1].items, c.arg[1])
                 [] c.op = "pop" /\ c.ret # <<None>>
                      -> Append(stack'[1].items, c.ret[1][1]) = stack[1].items
                 [] OTHER -> stack' = stack ]_vars

C24_Witness ==
    /\ Len(trace) = 6
    /\ trace[2] = Call("push", <<1>>, <<<<>>>>)
    /\ trace[3] = Call("push", <<2>>, <<<<>>>>)
    /\ trace[4] = Call("pop", <<>>, <<Some(2)>>)
    /\ trace[5] = Call("pop", <<>>, <<Some(1)>>)
    /\ trace[6] = Call("pop", <<>>, <<None>>)

-----------------------------------------------------------------------------
(* traits.rs: SimpleStorage<T>                                             *)

\* SimpleStorage::new.
SimpleStorage_new == [item |-> None]

\* Storage for SimpleStorage: store.
SimpleStorage_store(self, item) == Returns([self EXCEPT !.item = Some(item)], <<>>)

\* Storage for SimpleStorage: retrieve (Option::as_ref).
SimpleStorage_retrieve(self) == Returns(self, self.item)

\* Storage for SimpleStorage: remove (Option::take).
\* (SimpleStorage_remove_keep: the item returned but left in place.)
SimpleStorage_remove_keep(self) == Returns(self, self.item)
SimpleStorage_remove(self) == Returns([self EXCEPT !.item = None], self.item)

StorageInit ==
    /\ storage = <<SimpleStorage_new>>
    /\ trace = <<Call("new", <<>>, <<>>)>>
    /\ counter = NoObject
    /\ stack = NoObject
    /\ builder = NoObject
    /\ splitter = NoObject
    /\ parser = NoObject
    /\ main_pc = "run_traits_examples"
    /\ NoRegistry

\* The call `op` on the storage gave r.
StorageCalled(op, arg, r) ==
    /\ Len(trace) <= MaxOps
    /\ storage' = <<r.self>>
    /\ trace' = Append(trace, Call(op, arg, <<r.ret>>))
    /\ UNCHANGED <<registryVars, main_pc, counter, stack, builder, splitter, parser>>

StorageStore ==
    \E item \in Items : StorageCalled("store", <<item>>, SimpleStorage_store(storage[1], item))
StorageRetrieve == StorageCalled("retrieve", <<>>, SimpleStorage_retrieve(storage[1]))
StorageRemove == StorageCalled("remove", <<>>, SimpleStorage_remove(storage[1]))

StorageStep ==
    \/ StorageStore
    \/ StorageRetrieve
    \/ StorageRemove

StorageSpec == StorageInit /\ [][StorageStep]_vars

\* What the storage holds before call n, by the calls alone: the item of
\* the latest store if no remove came after it, otherwise nothing.
HeldBefore(tr, n) ==
    LET writes == {k \in 1..(n - 1) : tr[k].op \in {"store", "remove"}}
    IN  IF writes = {} \/ tr[SetMax(writes \cup {0})].op = "remove"
        THEN None
        ELSE Some(tr[SetMax(writes)].arg[1])

\* C25: the storage holds at most one item: retrieve and remove return
\* the last item stored and not removed since (None if there is none),
\* store replaces what is held, retrieve changes nothing and remove
\* leaves the storage empty.
C25_StorageHoldsLastStored ==
    /\ [](\A n \in 2..Len(trace) :
             trace[n].op \in {"retrieve", "remove"}
             => trace[n].ret = <<HeldBefore(trace, n)>>)
    /\ [](/\ Len(storage[1].item) <= 1
          /\ storage[1].item = HeldBefore(trace, Len(trace) + 1))
    /\ [][ LET c == trace'[Len(trace')]
           IN  CASE c.op = "store" -> storage'[1].item = Some(c.arg[1])
                 [] c.op = "remove" -> storage'[1].item = None
                 [] OTHER -> storage' = storage ]_vars

C25_Witness ==
    /\ Len(trace) = 6
    /\ trace[2] = Call("store", <<1>>, <<<<>>>>)
    /\ trace[3] = Call("store", <<2>>, <<<<>>>>)
    /\ trace[4] = Call("retrieve", <<>>, <<Some(2)>>)
    /\ trace[5] = Call("remove", <<>>, <<Some(2)>>)
    /\ trace[6] = Call("retrieve", <<>>, <<None>>)

-----------------------------------------------------------------------------
(* traits.rs: PersonBuilder                                                *)

\* Result<T, E>.
Ok(v) == <<"Ok", v>>
Err(e) == <<"Err", e>>

\* The values given to the setters.
Names == {"Alice Johnson", "Bob"}
Ages == {30, 25}
Emails == {"alice@example.com", "bob@example.com"}

\* PersonBuilder::new.
PersonBuilder_new == [name |-> None, age |-> None, email |-> None]

\* PersonBuilder::name, ::age, ::email: the builder is moved in and out.
PersonBuilder_name(self, name) == [self EXCEPT !.name = Some(name)]
PersonBuilder_age(self, age) == [self EXCEPT !.age = Some(age)]
PersonBuilder_email(self, email) == [self EXCEPT !.email = Some(email)]

\* Builder for PersonBuilder: build, the three ok_or(..)? in order.
\* (PersonBuilder_build_emailFirst: email tested before name and age.)
PersonBuilder_build_emailFirst(self) ==
    IF self.email = None THEN Err("Email is required")
    ELSE IF self.name = None THEN Err("Name is required")
    ELSE IF self.age = None THEN Err("Age is required")
    ELSE Ok([name |-> self.name[1], age |-> self.age[1], email |-> self.email[1]])
PersonBuilder_build(self) ==
    IF self.name = None THEN Err("Name is required")
    ELSE IF self.age = None THEN Err("Age is required")
    ELSE IF self.email = None THEN Err("Email is required")
    ELSE Ok([name |-> self.name[1], age |-> self.age[1], email |-> self.email[1]])

BuilderInit ==
    /\ builder = <<PersonBuilder_new>>
    /\ trace = <<Call("new", <<>>, <<>>)>>
    /\ counter = NoObject
    /\ stack = NoObject
    /\ storage = NoObject
    /\ splitter = NoObject
    /\ parser = NoObject
    /\ main_pc = "run_traits_examples"
    /\ NoRegistry

\* A setter was called and gave the builder back.
BuilderSet(op, arg, self) ==
    /\ builder # NoObject
    /\ Len(trace) < MaxOps
    /\ builder' = <<self>>
    /\ trace' = Append(trace, Call(op, <<arg>>, <<>>))
    /\ UNCHANGED <<registryVars, main_pc, counter, stack, storage, splitter, parser>>

BuilderName ==
    /\ builder # NoObject
    /\ \E name \in Names : BuilderSet("name", name, PersonBuilder_name(builder[1], name))
BuilderAge ==
    /\ builder # NoObject
    /\ \E age \in Ages : BuilderSet("age", age, PersonBuilder_age(builder[1], age))
BuilderEmail ==
    /\ builder # NoObject
    /\ \E email \in Emails : BuilderSet("email", email, PersonBuilder_email(builder[1], email))

\* build() takes the builder by value.
BuilderBuild ==
    /\ builder # NoObject
    /\ builder' = NoObject
    /\ trace' = Append(trace, Call("build", <<>>, <<PersonBuilder_build(builder[1])>>))
    /\ UNCHANGED <<registryVars, main_pc, counter, stack, storage, splitter, parser>>

BuilderStep ==
    \/ BuilderName
    \/ BuilderAge
    \/ BuilderEmail
    \/ BuilderBuild

BuilderSpec == BuilderInit /\ [][BuilderStep]_vars

\* The argument of the latest call of setter op before call n, if any.
LastSet(tr, n, op) ==
    LET calls == {k \in 1..(n - 1) : tr[k].op = op}
    IN  IF calls = {} THEN None ELSE Some(tr[SetMax(calls)].arg[1])

\* The message for the first field never set, in the order name, age, email.
FirstMissing(nm, ag, em) ==
    CASE nm = None -> "Name is required"
      [] nm # None /\ ag = None -> "Age is required"
      [] nm # None /\ ag # None /\ em = None -> "Email is required"
      [] OTHER -> "none"

\* C26: build returns Ok exactly when name, age and email have each been
\* set, in whatever order, the person holding the value of the last call
\* of each setter; otherwise Err with the message of the first missing
\* field in the order name, age, email.
C26_BuildOkIffAllSet ==
    \A n \in 2..Len(trace) :
        trace[n].op = "build"
        => LET nm == LastSet(trace, n, "name")
               ag == LastSet(trace, n, "age")
               em == LastSet(trace, n, "email")
               res == trace[n].ret[1]
           IN  IF nm # None /\ ag # None /\ em # None
               THEN /\ res[1] = "Ok"
                    /\ res[2] = [name |-> nm[1], age |-> ag[1], email |-> em[1]]
               ELSE /\ res[1] = "Err"
                    /\ res[2] = FirstMissing(nm, ag, em)

C26_Witness ==
    /\ Len(trace) = 6
    /\ trace[2] = Call("email", <<"bob@example.com">>, <<>>)
    /\ trace[3] = Call("name", <<"Bob">>, <<>>)
    /\ trace[4] = Call("age", <<25>>, <<>>)
    /\ trace[5] = Call("name", <<"Alice Johnson">>, <<>>)
    /\ trace[6].op = "build"
    /\ trace[6].ret[1][1] = "Ok"
    /\ trace[6].ret[1][2].name = "Alice Johnson"

-----------------------------------------------------------------------------
(* lifetime.rs: StrSplit                                                   *)

\* The longest string explored, its bytes (`,` `-` `a`) and the
\* single-byte delimiters.
MaxStrLen == 3
SplitBytes == {44, 45, 97}
Delimiters == {44, 45}

\* The strings of at most n bytes over the alphabet A.
StringsOver(A, n) == UNION {[1..k -> A] : k \in 0..n}

\* StrSplit::new.
StrSplit_new(string, delimiter) == [remainder |-> Some(string), delimiter |-> delimiter]

\* str::find(char) for a single-byte char: the byte offset of the first
\* occurrence, if any.
Find(s, c) ==
    LET hits == {i \in 1..Len(s) : s[i] = c}
    IN  IF hits = {} THEN None ELSE Some(SetMin(hits) - 1)

\* Iterator for StrSplit: next.
\* (StrSplit_next_dropsLast: an empty rest after the delimiter ends the
\* iteration.)
StrSplit_next_dropsLast(self) ==
    IF self.remainder # None
    THEN LET remainder == self.remainder[1]
             found == Find(remainder, self.delimiter)
         IN  IF found # None
             THEN LET index == found[1]
                      before == SubSeq(remainder, 1, index)
                      after == SubSeq(remainder, index + 1, Len(remainder))
                  IN  Returns([self EXCEPT !.remainder =
                                   IF Len(after) = 1 THEN None
                                   ELSE Some(SubSeq(after, 2, Len(after)))],
                              Some(before))
             ELSE Returns([self EXCEPT !.remainder = None], Some(remainder))
    ELSE Returns(self, None)
StrSplit_next(self) ==
    IF self.remainder # None
    THEN LET remainder == self.remainder[1]
             found == Find(remainder, self.delimiter)
         IN  IF found # None
             THEN LET index == found[1]
                      before == SubSeq(remainder, 1, index)
                      after == SubSeq(remainder, index + 1, Len(remainder))
                  IN  Returns([self EXCEPT !.remainder = Some(SubSeq(after, 2, Len(after)))],
                              Some(before))
             ELSE Returns([self EXCEPT !.remainder = None], Some(remainder))
    ELSE Returns(self, None)

SplitInit ==
    /\ \E string \in StringsOver(SplitBytes, MaxStrLen), delimiter \in Delimiters :
          /\ splitter = <<StrSplit_new(string, delimiter)>>
          /\ trace = <<Call("new", <<string, delimiter>>, <<>>)>>
    /\ counter = NoObject
    /\ stack = NoObject
    /\ storage = NoObject
    /\ builder = NoObject
    /\ parser = NoObject
    /\ main_pc = "run_lifetimes_examples"
    /\ NoRegistry

\* splitter.next() is called.
SplitNext ==
    /\ Len(trace) <= MaxStrLen + 3
    /\ LET r == StrSplit_next(splitter[1])
       IN  /\ splitter' = <<r.self>>
           /\ trace' = Append(trace, Call("next", <<>>, r.ret))
    /\ UNCHANGED <<registryVars, main_pc, counter, stack, storage, builder, parser>>

SplitSpec == SplitInit /\ [][SplitNext]_vars

\* The values of the calls of tr that returned Some, in order.
Yielded(tr) ==
    LET some == SelectSeq(SubSeq(tr, 2, Len(tr)), LAMBDA c : c.ret # None)
    IN  [i \in 1..Len(some) |-> some[i].ret[1]]

\* C27: on StrSplit::new(s, d) the first (occurrences of d in s) + 1 calls
\* of next each yield a part without d and every later call yields None;
\* the parts joined by d are s, and while parts remain the parts so far,
\* joined by d and followed by d and the remainder, are s.
C27_SplitPartsRejoin ==
    LET s == trace[1].arg[1]
        d == trace[1].arg[2]
        occurrences == Cardinality({i \in 1..Len(s) : s[i] = d})
        parts == Yielded(trace)
    IN  /\ \A n \in 2..Len(trace) :
              IF n - 1 <= occurrences + 1
              THEN /\ trace[n].ret # None
                   /\ \A i \in 1..Len(trace[n].ret[1]) : trace[n].ret[1][i] # d
              ELSE trace[n].ret = None
        /\ Len(trace) - 1 >= occurrences + 1
           => /\ Len(parts) = occurrences + 1
              /\ Join(parts, <<d>>) = s
              /\ splitter[1].remainder = None
        /\ (Len(trace) - 1 < occurrences + 1)
           => /\ splitter[1].remainder # None
              /\ Join(Append(parts, splitter[1].remainder[1]), <<d>>) = s

C27_Witness ==
    /\ trace[1].arg = << <<44, 97, 44>>, 44 >>
    /\ Len(trace) = 6
    /\ Yielded(trace) = << <<>>, <<97>>, <<>> >>
    /\ trace[5].ret = None
    /\ trace[6].ret = None

-----------------------------------------------------------------------------
(* lifetime.rs: Parser                                                     *)

\* The bytes of the inputs parsed: space, tab and two letters.
ParserBytes == {32, 9, 97, 98}

\* Parser::new.
Parser_new(input) == [input |-> input, position |-> 0]

\* self.input.chars().nth(i).unwrap() on ASCII input: the byte at offset i.
CharAt(input, i) == input[i + 1]

\* The while loop of parse_word: position advanced to the first whitespace
\* at or after it, or to the end.
RECURSIVE word_loop(_)
word_loop(self) ==
    IF self.position < Len(self.input)
    THEN IF IsWhitespace(CharAt(self.input, self.position))
         THEN self
         ELSE word_loop([self EXCEPT !.position = @ + 1])
    ELSE self

\* Parser::skip_whitespace.
RECURSIVE skip_whitespace(_)
skip_whitespace(self) ==
    IF self.position < Len(self.input)
    THEN IF ~IsWhitespace(CharAt(self.input, self.position))
         THEN self
         ELSE skip_whitespace([self EXCEPT !.position = @ + 1])
    ELSE self

\* Parser::parse_word.
parse_word(self) ==
    LET start == self.position
        scanned == word_loop(self)
    IN  IF start < scanned.position
        THEN Returns(skip_whitespace(scanned),
                     Some(SubSeq(self.input, start + 1, scanned.position)))
        ELSE Returns(scanned, None)

ParserInit ==
    /\ \E input \in StringsOver(ParserBytes, MaxStrLen) :
          /\ parser = <<Parser_new(input)>>
          /\ trace = <<Call("new", <<input>>, <<>>)>>
    /\ counter = NoObject
    /\ stack = NoObject
    /\ storage = NoObject
    /\ builder = NoObject
    /\ splitter = NoObject
    /\ main_pc = "run_lifetimes_examples"
    /\ NoRegistry

\* parser.parse_word() is called.
ParseWord ==
    /\ Len(trace) <= MaxStrLen + 2
    /\ LET r == parse_word(parser[1])
       IN  /\ parser' = <<r.self>>
           /\ trace' = Append(trace, Call("parse_word", <<>>, r.ret))
    /\ UNCHANGED <<registryVars, main_pc, counter, stack, storage, builder, splitter>>

ParserSpec == ParserInit /\ [][ParseWord]_vars

\* C28: the n-th call of parse_word returns the n-th whitespace-separated
\* word of the input, and None once all words have been returned;
\* position never exceeds the length of the input and never decreases.
C28_ParseWordYieldsWords ==
    /\ [](LET input == trace[1].arg[1]
              words == SplitWhitespace(input)
          IN  /\ parser[1].position <= Len(input)
              /\ \A n \in 2..Len(trace) :
                    trace[n].ret = IF n - 1 <= Len(words)
                                   THEN Some(words[n - 1])
                                   ELSE None)
    /\ [][parser'[1].position >= parser[1].position]_vars

-----------------------------------------------------------------------------
(* main.rs: main's sequence of calls                                       *)

\* The entry functions main calls, in the order of its statements.
MainCalls ==
    << "whats_your_name", "add_numbers", "loop_main", "datatypes",
       "conditionals", "operators", "match", "hashmaps",
       "median_mode", "pig_latin", "alphabetical_employees_interface",
       "run_impl_examples", "run_generics_examples", "run_traits_examples",
       "run_lifetimes_examples" >>

\* The statement of main that follows the call of f: the next call, or the
\* closing messages and the end of main.
AfterCall(f) ==
    LET i == CHOOSE k \in 1..Len(MainCalls) : MainCalls[k] = f
    IN  IF i < Len(MainCalls) THEN MainCalls[i + 1] ELSE "end_of_main"

\* The calls that print their demonstration and return.
Demonstrations ==
    {MainCalls[k] : k \in 1..Len(MainCalls)}
        \ {"whats_your_name", "pig_latin", "alphabetical_employees_interface"}

\* main has printed its greeting and is in whats_your_name.
MainInit ==
    /\ main_pc = "whats_your_name"
    /\ NoRegistry
    /\ NoDemo

\* The call main is in returns and main goes on to its next statement.
MainReturn ==
    /\ trace' = Append(trace, Call(main_pc, <<>>, <<>>))
    /\ main_pc' = AfterCall(main_pc)
    /\ UNCHANGED <<counter, stack, storage, builder, splitter, parser>>

\* whats_your_name: read_line gives Ok (a line, or nothing at end of
\* input) and the greeting is printed.
MainWhatsYourName ==
    /\ main_pc = "whats_your_name"
    /\ MainReturn
    /\ UNCHANGED registryVars

\* whats_your_name: read_line gives Err and expect panics.
MainWhatsYourNameErr ==
    /\ main_pc = "whats_your_name"
    /\ main_pc' = "panicked"
    /\ UNCHANGED <<registryVars, demoVars>>

\* A demonstration runs and returns.
MainDemonstration ==
    /\ main_pc \in Demonstrations
    /\ MainReturn
    /\ UNCHANGED registryVars

\* pig_latin("apple") returns and alphabetical_employees_interface is
\* entered: the registry is created empty.
MainEnterRegistry ==
    /\ main_pc = "pig_latin"
    /\ MainReturn
    /\ pc' = "prompt"
    /\ company' = <<>>
    /\ UNCHANGED <<prompts, history, out, eof>>

\* The registry loop has broken out on exit and the function returns.
\* (MainLeaveRegistry_onError: the function also returns on a failed read.)
MainLeaveRegistry_onError ==
    /\ main_pc = "alphabetical_employees_interface"
    /\ pc \in {"terminated", "panicked"}
    /\ MainReturn
    /\ UNCHANGED registryVars
MainLeaveRegistry ==
    /\ main_pc = "alphabetical_employees_interface"
    /\ pc = "terminated"
    /\ MainReturn
    /\ UNCHANGED registryVars

\* The closing messages are printed and main returns: the process ends
\* with success.
MainEnd ==
    /\ main_pc = "end_of_main"
    /\ main_pc' = "exit_success"
    /\ UNCHANGED <<registryVars, demoVars>>

MainNext ==
    \/ MainWhatsYourName
    \/ MainWhatsYourNameErr
    \/ MainDemonstration
    \/ MainEnterRegistry
    \/ Prompt
    \/ CmdExit
    \/ CmdAdd
    \/ CmdShowAll
    \/ CmdShow
    \/ CmdUnknown
    \/ ReadEof
    \/ ReadErr
    \/ MainLeaveRegistry
    \/ MainEnd

MainSpec == MainInit /\ [][MainNext]_vars

\* The order in which the entry functions are to finish, and the names of
\* those that have.
BeforeRegistry ==
    << "whats_your_name", "add_numbers", "loop_main", "datatypes",
       "conditionals", "operators", "match", "hashmaps",
       "median_mode", "pig_latin" >>
AfterRegistry ==
    << "run_impl_examples", "run_generics_examples", "run_traits_examples",
       "run_lifetimes_examples" >>
Finished == [i \in 1..Len(trace) |-> trace[i].op]
IsPrefix(a, b) == Len(a) <= Len(b) /\ a = SubSeq(b, 1, Len(a))
InAdvancedPart ==
    \/ main_pc \in Range(AfterRegistry) \cup {"end_of_main", "exit_success"}
    \/ \E i \in 1..Len(trace) : trace[i].op \in Range(AfterRegistry)

\* C21: the entry functions finish one after another in main's order; the
\* registry loop runs only once whats_your_name, the basic demonstrations,
\* median_mode and pig_latin have finished; the advanced demonstrations
\* and the closing messages come only after the loop has terminated on an
\* exit line, and from there main runs to its normal end.
C21_MainRunsInOrder ==
    /\ [](IsPrefix(Finished,
                   BeforeRegistry \o <<"alphabetical_employees_interface">>
                       \o AfterRegistry))
    /\ [](pc # "unstarted" => IsPrefix(BeforeRegistry, Finished))
    /\ [](InAdvancedPart => /\ pc = "terminated"
                            /\ ExitSeen
                            /\ main_pc # "panicked")
    /\ [](main_pc = "exit_success"
            => Finished = BeforeRegistry \o <<"alphabetical_employees_interface">>
                              \o AfterRegistry)
    /\ [][ /\ registryVars' # registryVars
              => main_pc' = "alphabetical_employees_interface"
           /\ InAdvancedPart => (InAdvancedPart' /\ main_pc' # main_pc) ]_vars

C21_Witness ==
    /\ main_pc = "exit_success"
    /\ Len(trace) = 15
    /\ Len(history) = 3
    /\ company # <<>>

====
